---------------------------- MODULE Spec2Model ----------------------------
(***************************************************************************)
(* Offer negotiation and coupon lifecycle of the ShuQ shopper client       *)
(* (src/pages/Index.tsx) over the offer ledger (src/lib/offerLogs.ts).     *)
(***************************************************************************)
EXTENDS Integers, Sequences, FiniteSets, TLC

(***************************************************************************)
(* JavaScript numbers.  handleSendOffer computes                           *)
(*   selectedProduct.price * (1 - selectedProduct.maxDiscountPercentage/100)*)
(* in IEEE-754 binary64, rounding to nearest (ties to even) after each of  *)
(* the three operations.  A value is held exactly as an integer part and a *)
(* finite sequence of fraction bits (most significant first).              *)
(***************************************************************************)
MantissaBits == 53

\* 2^i mod q, without forming 2^i
RECURSIVE Pow2Mod(_, _)
Pow2Mod(i, q) == IF i = 0 THEN 1 % q ELSE (2 * Pow2Mod(i - 1, q)) % q

\* the first n fraction bits of r/q (0 <= r < q), by long division: the
\* remainder before bit i is (r * 2^(i-1)) mod q
DivBits(r, q, n) ==
    [i \in 1..n |-> (2 * ((r * Pow2Mod(i - 1, q)) % q)) \div q]

\* the remainder left after n steps of that long division
DivRem(r, q, n) == (r * Pow2Mod(n, q)) % q

RECURSIVE BitLen(_)
BitLen(i) == IF i = 0 THEN 0 ELSE 1 + BitLen(i \div 2)

\* index of the first 1 bit of f, Len(f) + 1 when there is none
FirstOne(f) ==
    IF \E i \in 1..Len(f) : f[i] = 1
    THEN CHOOSE i \in 1..Len(f) : f[i] = 1 /\ \A j \in 1..(i - 1) : f[j] = 0
    ELSE Len(f) + 1

\* index of the last bit of f equal to b, 0 when there is none
LastBit(f, b) ==
    IF \E i \in 1..Len(f) : f[i] = b
    THEN CHOOSE i \in 1..Len(f) : f[i] = b /\ \A j \in (i + 1)..Len(f) : f[j] # b
    ELSE 0

\* f + one unit in its last place: [carry, bits]
IncBits(f) ==
    LET k == LastBit(f, 0)
    IN [carry |-> IF k = 0 THEN 1 ELSE 0,
        bits  |-> [i \in 1..Len(f) |-> IF i < k THEN f[i]
                                       ELSE IF i = k THEN 1 ELSE 0]]

\* round int + 0.frac (+ something below the last bit when sticky) to binary64
RoundDouble(int, frac, sticky) ==
    LET n    == BitLen(int)
        keep == IF n > 0 THEN MantissaBits - n
                ELSE FirstOne(frac) + MantissaBits - 1
    IN IF Len(frac) <= keep
       THEN [int |-> int, frac |-> frac]
       ELSE LET kept  == SubSeq(frac, 1, keep)
                guard == frac[keep + 1]
                rest  == sticky \/ \E i \in (keep + 2)..Len(frac) : frac[i] = 1
                lsb   == IF keep > 0 THEN frac[keep] ELSE int % 2
                up    == guard = 1 /\ (rest \/ lsb = 1)
                inc   == IncBits(kept)
            IN IF up THEN [int |-> int + inc.carry, frac |-> inc.bits]
                     ELSE [int |-> int, frac |-> kept]

\* maxDiscountPercentage / 100
JsDivide100(d) ==
    IF d % 100 = 0 THEN [int |-> d \div 100, frac |-> <<>>]
    ELSE LET n == MantissaBits + 8
         IN RoundDouble(d \div 100, DivBits(d % 100, 100, n),
                        DivRem(d % 100, 100, n) # 0)

\* the fraction bits of 1 - 0.f, for f with at least one 1 bit: the bits
\* above the last 1 are inverted
Negate(f) ==
    LET k == LastBit(f, 1)
    IN [i \in 1..Len(f) |-> IF i < k THEN 1 - f[i] ELSE f[i]]

\* 1 - x, for 0 <= x <= 1
JsOneMinus(x) ==
    IF x.int = 1 THEN [int |-> 0, frac |-> <<>>]
    ELSE IF FirstOne(x.frac) > Len(x.frac) THEN [int |-> 1, frac |-> <<>>]
    ELSE RoundDouble(0, Negate(x.frac), FALSE)

RECURSIVE MulCarry(_, _, _)
\* the carry of p * 0.f out of the bits after position i
MulCarry(p, f, i) ==
    IF i >= Len(f) THEN 0
    ELSE (p * f[i + 1] + MulCarry(p, f, i + 1)) \div 2

\* p * 0.f : [carry (the integer part of the product), bits]
MulBits(p, f) ==
    [carry |-> MulCarry(p, f, 0),
     bits  |-> [i \in 1..Len(f) |-> (p * f[i] + MulCarry(p, f, i)) % 2]]

\* p * x, for a non-negative integer p
JsTimes(p, x) ==
    LET m == MulBits(p, x.frac)
    IN RoundDouble(p * x.int + m.carry, m.bits, FALSE)

\* offer >= x, for an integer offer
JsGreaterEq(offer, x) ==
    \/ offer > x.int
    \/ offer = x.int /\ \A i \in 1..Len(x.frac) : x.frac[i] = 0

(***************************************************************************)
(* The decision of handleSendOffer (Index.tsx 365-367).                    *)
(***************************************************************************)
MinAcceptablePrice(product) ==
    JsTimes(product.price, JsOneMinus(JsDivide100(product.maxDiscountPercentage)))

IsAccepted(product, offerPrice) ==
    JsGreaterEq(offerPrice, MinAcceptablePrice(product))

\* a decision that would never consume an attempt
NewAttempts_NeverConsumes(isAccepted, attemptsRemaining) == attemptsRemaining

\* mutant: an acceptance consumes an attempt like a rejection
NewAttempts_AlwaysConsumes(isAccepted, attemptsRemaining) ==
    attemptsRemaining - 1

NewAttempts(isAccepted, attemptsRemaining) ==
    IF isAccepted THEN attemptsRemaining ELSE attemptsRemaining - 1

OfferStatus(isAccepted) == IF isAccepted THEN "accepted" ELSE "rejected"

(***************************************************************************)
(* State.                                                                  *)
(***************************************************************************)
VARIABLES
    ledger,     \* the offer_logs table: rows in insertion order
    now,        \* the wall clock, in minutes
    catalog,    \* the products table: sku -> [price, maxDiscountPercentage]
    ui,         \* client -> React state of ShuQApp
    storage,    \* client -> localStorage 'shuq-coupons' (the JSON, parsed)
    tasks,      \* client -> asynchronous work of the client still in flight
    inbox,      \* client -> realtime notifications not yet delivered
    draws,      \* number of Date.now() ids / Math.random() codes drawn so far
    probe       \* the last application of a function under test

vars == <<ledger, now, catalog, ui, storage, tasks, inbox, draws, probe>>

NULL == "null"       \* a null string-valued state (lastOfferResult)

\* a nullable column or field: Null, or Some(v) holding v
Null == <<>>
Some(v) == <<v>>

Max(a, b) == IF a >= b THEN a ELSE b

(***************************************************************************)
(* The ledger (offerLogs.ts).                                              *)
(***************************************************************************)
DefaultAttempts == 3
OfferLifetime == 60       \* minutes: 60 * 60 * 1000 ms

\* generateAcceptanceCode: 8 characters of [A-Z0-9], drawn at random; the
\* model keeps the length and one token per draw
GenerateAcceptanceCode(token) == [len |-> 8, token |-> token]

\* an insert that would give every row an expiry
NewOfferLog_AlwaysExpires(led, sessionId, offerData, t) ==
    [ id                              |-> Len(led) + 1,
      session_id                      |-> sessionId,
      product_sku                     |-> offerData.product_sku,
      product_price                   |-> offerData.product_price,
      product_max_discount_percentage |-> offerData.product_max_discount_percentage,
      offered_amount                  |-> offerData.offered_amount,
      offer_status                    |-> offerData.offer_status,
      attempts_remaining              |-> IF offerData.attempts_remaining = Null
                                          THEN DefaultAttempts
                                          ELSE offerData.attempts_remaining[1],
      acceptance_code                 |-> IF offerData.offer_status = "accepted"
                                          THEN Some(GenerateAcceptanceCode(<<"ledger", Len(led) + 1>>))
                                          ELSE Null,
      is_redeemed                     |-> FALSE,
      created_at                      |-> t,
      updated_at                      |-> t,
      expires_at                      |-> Some(t + OfferLifetime) ]

\* createOfferLog: the row the insert adds.  id is the row's uuid; ids grow
\* with insertion and order the rows created within one clock minute.
NewOfferLog(led, sessionId, offerData, t) ==
    [ id                              |-> Len(led) + 1,
      session_id                      |-> sessionId,
      product_sku                     |-> offerData.product_sku,
      product_price                   |-> offerData.product_price,
      product_max_discount_percentage |-> offerData.product_max_discount_percentage,
      offered_amount                  |-> offerData.offered_amount,
      offer_status                    |-> offerData.offer_status,
      attempts_remaining              |-> IF offerData.attempts_remaining = Null
                                          THEN DefaultAttempts
                                          ELSE offerData.attempts_remaining[1],
      acceptance_code                 |-> IF offerData.offer_status = "accepted"
                                          THEN Some(GenerateAcceptanceCode(<<"ledger", Len(led) + 1>>))
                                          ELSE Null,
      is_redeemed                     |-> FALSE,
      created_at                      |-> t,
      updated_at                      |-> t,
      expires_at                      |-> IF offerData.offer_status = "accepted"
                                          THEN Some(t + OfferLifetime)
                                          ELSE Null ]

CreateOfferLog(led, sessionId, offerData, t) ==
    Append(led, NewOfferLog(led, sessionId, offerData, t))

Rows(led) == {led[i] : i \in 1..Len(led)}

\* r1 was created after r2
Newer(r1, r2) ==
    \/ r1.created_at > r2.created_at
    \/ r1.created_at = r2.created_at /\ r1.id > r2.id

RECURSIVE OrderByCreatedDesc(_)
\* .order('created_at', { ascending: false })
OrderByCreatedDesc(rows) ==
    IF rows = {} THEN <<>>
    ELSE LET first == CHOOSE r \in rows : \A q \in rows \ {r} : Newer(r, q)
         IN <<first>> \o OrderByCreatedDesc(rows \ {first})

GetProductOfferLogs(led, sessionId, productSku) ==
    OrderByCreatedDesc({r \in Rows(led) : r.session_id = sessionId
                                          /\ r.product_sku = productSku})

GetAcceptedOffers(led, sessionId) ==
    OrderByCreatedDesc({r \in Rows(led) : r.session_id = sessionId
                                          /\ r.offer_status = "accepted"})

\* mutant: the snapshot of the most recent row is returned unclamped
GetRemainingAttempts_NoClamp(led, sessionId, productSku) ==
    LET logs == GetProductOfferLogs(led, sessionId, productSku)
    IN IF Len(logs) = 0 THEN DefaultAttempts
       ELSE IF logs[1].offer_status = "accepted" THEN DefaultAttempts
       ELSE logs[1].attempts_remaining

GetRemainingAttempts(led, sessionId, productSku) ==
    LET logs == GetProductOfferLogs(led, sessionId, productSku)
    IN IF Len(logs) = 0 THEN DefaultAttempts
       ELSE IF logs[1].offer_status = "accepted" THEN DefaultAttempts
       ELSE Max(0, logs[1].attempts_remaining)

\* isOfferExpired
IsOfferExpired(offer, t) ==
    IF offer.expires_at = Null THEN FALSE ELSE offer.expires_at[1] < t

(***************************************************************************)
(* The shopper client (Index.tsx): devices, products, coupons.             *)
(***************************************************************************)
Clients == {"d1", "d2"}

\* getSessionId: the devices of the model share one session id
SessionOf(c) == "s1"

Skus == {"A", "B"}
NoSku == "none"
NoProduct == [sku |-> NoSku]

\* the versions of a product's row the admin moves it through
ProductVersions ==
    << [price |-> 100000, maxDiscountPercentage |-> 50],
       [price |-> 80000,  maxDiscountPercentage |-> 30] >>

InitialCatalog == [s \in Skus |-> ProductVersions[1]]

\* getProductBySku / transformProduct
GetProductBySku(cat, sku) ==
    [sku |-> sku, price |-> cat[sku].price,
     maxDiscountPercentage |-> cat[sku].maxDiscountPercentage]

\* useState initial values of ShuQApp (Index.tsx 108-116)
InitialUi(sku) ==
    [ sku               |-> sku,
      currentScreen     |-> "loader",
      selectedProduct   |-> NoProduct,
      allProducts       |-> FALSE,
      isLoadingProduct  |-> FALSE,
      attemptsRemaining |-> DefaultAttempts,
      lastOfferResult   |-> NULL,
      coupons           |-> <<>> ]

NoTasks ==
    [ loadData     |-> {},        \* routes whose getProductBySku / getAllProducts is in flight
      loadAttempts |-> {},        \* skus whose getRemainingAttempts is in flight
      loadCoupons  |-> FALSE,     \* a loadAcceptedOffers call is in flight
      sendOffer    |-> <<>> ]     \* handleSendOffer calls awaiting createOfferLog

NoProbe == [fn |-> "none"]

\* everything but the probe at rest: the setting of the function harnesses
AtRest ==
    /\ ledger = <<>>
    /\ now = 0
    /\ catalog = InitialCatalog
    /\ ui = [c \in Clients |-> InitialUi(NoSku)]
    /\ storage = [c \in Clients |-> <<>>]
    /\ tasks = [c \in Clients |-> NoTasks]
    /\ inbox = [c \in Clients |-> <<>>]
    /\ draws = 0

(***************************************************************************)
(* Harness of the decision: handleSendOffer's first three lines applied to *)
(* a product, a slider value and a number of attempts.                     *)
(***************************************************************************)
DecidePrices == {1000, 89990, 100000}
Discounts == 0..100

\* floor of the exact threshold price * (100 - discount) / 100
ExactFloor(price, discount) == (price * (100 - discount)) \div 100

DecideOffers(price, discount) ==
    {o \in {0, ExactFloor(price, discount) - 1, ExactFloor(price, discount),
            ExactFloor(price, discount) + 1, price} : o >= 0}

InitDecide ==
    /\ AtRest
    /\ \E price \in DecidePrices, discount \in Discounts :
         \E offer \in DecideOffers(price, discount) :
            probe = [fn |-> "decide",
                     product |-> [sku |-> "A", price |-> price,
                                  maxDiscountPercentage |-> discount],
                     offerPrice |-> offer,
                     done |-> FALSE, isAccepted |-> FALSE]

ApplyDecide ==
    /\ probe.fn = "decide" /\ ~probe.done
    /\ probe' = [probe EXCEPT !.done = TRUE,
                              !.isAccepted = IsAccepted(probe.product, probe.offerPrice)]
    /\ UNCHANGED <<ledger, now, catalog, ui, storage, tasks, inbox, draws>>

SpecDecide == InitDecide /\ [][ApplyDecide]_vars

\* C1: a submitted offer is decided accepted if and only if
\* offeredAmount >= price * (1 - maxDiscountPercentage/100), in exact
\* arithmetic; otherwise it is rejected.
C1_AcceptedIffAtLeastThreshold ==
    (probe.fn = "decide" /\ probe.done) =>
        (probe.isAccepted <=>
            probe.offerPrice * 100 >=
                probe.product.price * (100 - probe.product.maxDiscountPercentage))

(***************************************************************************)
(* Harness of the ledger reads: rows of any session, product, status and   *)
(* attempts snapshot are inserted, and getRemainingAttempts is called for  *)
(* the current session.                                                    *)
(***************************************************************************)
MaxProbeRows == 3

ProbeSessions == {"s1", "s2"}
ProbeStatuses == {"pending", "accepted", "rejected"}
ProbeAttempts == {-1, 2}

InitLedger == AtRest /\ probe = NoProbe

InsertOfferLog ==
    /\ Len(ledger) < MaxProbeRows
    /\ \E session \in ProbeSessions, sku \in Skus,
          status \in ProbeStatuses, attempts \in ProbeAttempts :
         ledger' = CreateOfferLog(ledger, session,
                      [ product_sku |-> sku,
                        product_price |-> catalog[sku].price,
                        product_max_discount_percentage |->
                            catalog[sku].maxDiscountPercentage,
                        offered_amount |-> 40000,
                        offer_status |-> status,
                        attempts_remaining |-> Some(attempts) ], now)
    /\ probe' = NoProbe
    /\ UNCHANGED <<now, catalog, ui, storage, tasks, inbox, draws>>

ReadRemainingAttempts ==
    /\ \E sku \in Skus :
         probe' = [fn |-> "getRemainingAttempts", session |-> "s1", sku |-> sku,
                   result |-> GetRemainingAttempts(ledger, "s1", sku)]
    /\ UNCHANGED <<ledger, now, catalog, ui, storage, tasks, inbox, draws>>

NextLedger == InsertOfferLog \/ ReadRemainingAttempts

SpecLedger == InitLedger /\ [][NextLedger]_vars

\* the rows of the pair (session, sku), and the one created last among them
PairRows(led, session, sku) ==
    {r \in Rows(led) : r.session_id = session /\ r.product_sku = sku}

IsMostRecent(r, rows) ==
    \A q \in rows : q.created_at < r.created_at
                    \/ (q.created_at = r.created_at /\ q.id <= r.id)

\* C4: getRemainingAttempts(sku) returns 3 when the current session has no
\* row for that sku, 3 when the most recent row of the pair is accepted, and
\* otherwise that row's attemptsRemaining clamped to at least 0.
C4_RemainingAttempts ==
    probe.fn = "getRemainingAttempts" =>
        LET rows == PairRows(ledger, probe.session, probe.sku)
        IN /\ rows = {} => probe.result = 3
           /\ \A r \in rows : IsMostRecent(r, rows) =>
                 /\ r.offer_status = "accepted" => probe.result = 3
                 /\ (r.offer_status # "accepted" /\ r.attempts_remaining >= 0)
                       => probe.result = r.attempts_remaining
                 /\ (r.offer_status # "accepted" /\ r.attempts_remaining < 0)
                       => probe.result = 0

\* C4 witness: a read whose pair has an older accepted row, a row of another
\* session and of another product beside it, and a most recent rejected row
\* with a negative snapshot, answered 0
C4_Witness ==
    /\ probe.fn = "getRemainingAttempts" /\ probe.result = 0
    /\ \E r \in PairRows(ledger, probe.session, probe.sku) :
          /\ IsMostRecent(r, PairRows(ledger, probe.session, probe.sku))
          /\ r.offer_status = "rejected" /\ r.attempts_remaining = -1
    /\ \E r \in PairRows(ledger, probe.session, probe.sku) :
          r.offer_status = "accepted"
    /\ \E r \in Rows(ledger) : r.session_id # probe.session \/ r.product_sku # probe.sku

(***************************************************************************)
(* The shopper application: every device runs ShuQApp (Index.tsx) against  *)
(* the shared offer_logs and products tables.                               *)
(***************************************************************************)
MaxRows == 4            \* rows the ledger takes
MaxDraws == 1           \* coupons the devices make without the ledger
MaxPendingOffers == 1   \* handleSendOffer calls of one device awaiting the insert
MaxInbox == 2           \* notifications in flight to one device
MaxTime == 61           \* the clock stops here

TickStep == 61          \* minutes the clock advances at a time

NavSkus == {"A"}                \* the product pages the devices visit
Offers == {40000, 55000}        \* slider values submitted
LocalCodeLens == {1, 8}         \* lengths generateCode can return

Undefined == "undefined"
NoDate == [kind |-> "undefined", t |-> 0]

\* the decision of handleSendOffer for the products and offers of the model
Decision ==
    [v \in {ProductVersions[i] : i \in 1..Len(ProductVersions)} |->
        [o \in Offers |-> IsAccepted([sku |-> "A", price |-> v.price,
                              maxDiscountPercentage |-> v.maxDiscountPercentage], o)]]

Decide(product, offerPrice) ==
    Decision[[price |-> product.price,
              maxDiscountPercentage |-> product.maxDiscountPercentage]][offerPrice]

\* transformOfferLogToCoupon: no productSku, status or createdAt
TransformOfferLogToCoupon(offerLog, t) ==
    [ id           |-> [src |-> "ledger", n |-> offerLog.id],
      offeredPrice |-> offerLog.offered_amount,
      expiresAt    |-> IF offerLog.expires_at = Null THEN t ELSE offerLog.expires_at[1],
      type         |-> "accepted",
      code         |-> IF offerLog.acceptance_code = Null
                       THEN [len |-> 0, token |-> <<>>]
                       ELSE offerLog.acceptance_code[1],
      isRedeemed   |-> Some(offerLog.is_redeemed),
      productSku   |-> Undefined,
      status       |-> Undefined,
      createdAt    |-> NoDate ]

\* the coupon handleSendOffer adds for the row it created
VisitCoupon(offerLog, product, t) ==
    [TransformOfferLogToCoupon(offerLog, t) EXCEPT
        !.productSku = product.sku,
        !.status = "pendiente",
        !.createdAt = [kind |-> "Date", t |-> t]]

\* generateCode: Math.random().toString(36).substr(2, 8).toUpperCase()
GenerateCode(len, draw) == [len |-> len, token |-> <<"local", draw>>]

\* a fallback that would issue the coupon at the list price
LocalCoupon_ListPrice(product, price, lifetime, len, draw, t) ==
    [ id           |-> [src |-> "local", n |-> draw],
      offeredPrice |-> product.price,
      expiresAt    |-> t + lifetime,
      type         |-> "accepted",
      code         |-> GenerateCode(len, draw),
      isRedeemed   |-> Null,
      productSku   |-> product.sku,
      status       |-> "pendiente",
      createdAt    |-> [kind |-> "Date", t |-> t] ]

\* the coupon handleSendOffer and handleAcceptSpecialDiscount build without
\* the ledger: id Date.now().toString(), a code of generateCode
LocalCoupon(product, price, lifetime, len, draw, t) ==
    [ id           |-> [src |-> "local", n |-> draw],
      offeredPrice |-> price,
      expiresAt    |-> t + lifetime,
      type         |-> "accepted",
      code         |-> GenerateCode(len, draw),
      isRedeemed   |-> Null,
      productSku   |-> product.sku,
      status       |-> "pendiente",
      createdAt    |-> [kind |-> "Date", t |-> t] ]

\* JSON.stringify of a coupon: a Date becomes its ISO string
ToJson(coupon) ==
    [coupon EXCEPT !.createdAt = IF @.kind = "Date"
                                 THEN [kind |-> "string", t |-> @.t] ELSE @]

\* saveCoupons: the value written under 'shuq-coupons'
SavedCoupons(coupons) == [i \in 1..Len(coupons) |-> ToJson(coupons[i])]

\* existingOffer of the offer screen
HasExistingOffer(u, t) ==
    \E i \in 1..Len(u.coupons) :
        /\ u.coupons[i].productSku = u.selectedProduct.sku
        /\ u.coupons[i].type = "accepted"
        /\ t < u.coupons[i].expiresAt

\* the page React renders: the guards before the screens, then the screen
Rendered(u) ==
    IF u.sku # NoSku /\ u.selectedProduct = NoProduct THEN "notFound"
    ELSE u.currentScreen

\* a realtime notification
OfferEvent(row) == [kind |-> "offer", row |-> row, product |-> NoProduct]
ProductEvent(product) == [kind |-> "product", row |-> 0, product |-> product]

\* the devices whose channels (set up with selectedProduct) receive events
Subscribed(c) == ui[c].selectedProduct # NoProduct

Notify(event) ==
    [c \in Clients |-> IF Subscribed(c) THEN Append(inbox[c], event) ELSE inbox[c]]

\* a filter that would let every session's rows through
SessionFilter_Any(c, sessionId) == TRUE

\* the filter of subscribeToSessionOfferLogs: session_id=eq.<getSessionId()>
SessionFilter(c, sessionId) == sessionId = SessionOf(c)

\* a change of a row of sessionId is published to the session channels
NotifySession(sessionId, event) ==
    [c \in Clients |-> IF Subscribed(c) /\ SessionFilter(c, sessionId)
                       THEN Append(inbox[c], event) ELSE inbox[c]]

InboxRoom == \A c \in Clients : Subscribed(c) => Len(inbox[c]) < MaxInbox

\* the route effect (Index.tsx 132-186): state reset, then loadData starts
RouteEffect(u, sku) ==
    [u EXCEPT !.sku = sku,
              !.currentScreen = "loader",
              !.selectedProduct = NoProduct,
              !.allProducts = FALSE,
              !.attemptsRemaining = 3,
              !.lastOfferResult = NULL,
              !.isLoadingProduct = TRUE]

\* setSelectedProduct(product) and the effect that depends on it (243-277):
\* a fresh start shows 3 attempts, otherwise getRemainingAttempts is called
SelectProduct(u, product) ==
    [u EXCEPT !.selectedProduct = product,
              !.attemptsRemaining = IF product # NoProduct /\ u.lastOfferResult = NULL
                                    THEN 3 ELSE @]

AttemptLoads(u, product, pending) ==
    IF product # NoProduct /\ u.lastOfferResult # NULL
    THEN pending \cup {product.sku} ELSE pending

\* a page load at the route of sku: the component is constructed, the route
\* effect and the mount effect (loadAcceptedOffers) run
Mounted(sku) == RouteEffect(InitialUi(sku), sku)

MountTasks(sku) ==
    [NoTasks EXCEPT !.loadData = {sku}, !.loadCoupons = TRUE]

\* the browser reloads the page, or opens the URL of a route
Reload(c) ==
    /\ \E sku \in {NoSku} \cup NavSkus :
         /\ ui' = [ui EXCEPT ![c] = Mounted(sku)]
         /\ tasks' = [tasks EXCEPT ![c] = MountTasks(sku)]
    /\ inbox' = [inbox EXCEPT ![c] = <<>>]
    /\ UNCHANGED <<ledger, now, catalog, storage, draws, probe>>

\* a goToHomeProducts whose cleanup would leave the channels subscribed
GoToHomeProducts_KeepsChannel(c) ==
    /\ Rendered(ui[c]) \in {"products", "offer", "result"}
    /\ LET u == [ui[c] EXCEPT !.selectedProduct = NoProduct,
                              !.currentScreen = "products",
                              !.attemptsRemaining = 3,
                              !.lastOfferResult = NULL]
       IN IF ui[c].sku # NoSku
          THEN /\ ui' = [ui EXCEPT ![c] = RouteEffect(u, NoSku)]
               /\ tasks' = [tasks EXCEPT ![c].loadData = @ \cup {NoSku}]
          ELSE /\ ui' = [ui EXCEPT ![c] = u]
               /\ UNCHANGED tasks
    /\ UNCHANGED <<ledger, now, catalog, storage, inbox, draws, probe>>

\* goToHomeProducts (menu "Home"): state reset, then navigate('/')
GoToHomeProducts(c) ==
    /\ Rendered(ui[c]) \in {"products", "offer", "result"}
    /\ LET u == [ui[c] EXCEPT !.selectedProduct = NoProduct,
                              !.currentScreen = "products",
                              !.attemptsRemaining = 3,
                              !.lastOfferResult = NULL]
       IN IF ui[c].sku # NoSku
          THEN /\ ui' = [ui EXCEPT ![c] = RouteEffect(u, NoSku)]
               /\ tasks' = [tasks EXCEPT ![c].loadData = @ \cup {NoSku}]
          ELSE /\ ui' = [ui EXCEPT ![c] = u]
               /\ UNCHANGED tasks
    /\ inbox' = [inbox EXCEPT ![c] = <<>>]
    /\ UNCHANGED <<ledger, now, catalog, storage, draws, probe>>

\* loadData resumes after getProductBySku / getAllProducts
LoadDataDone(c) ==
    /\ \E route \in tasks[c].loadData :
         IF route # NoSku
         THEN LET product == GetProductBySku(catalog, route)
              IN /\ ui' = [ui EXCEPT ![c] =
                             [SelectProduct(@, product) EXCEPT !.isLoadingProduct = FALSE]]
                 /\ tasks' = [tasks EXCEPT
                        ![c].loadData = @ \ {route},
                        ![c].loadAttempts = AttemptLoads(ui[c], product, @)]
                 /\ inbox' = [inbox EXCEPT ![c] = <<>>]
         ELSE /\ ui' = [ui EXCEPT ![c].allProducts = TRUE,
                                  ![c].isLoadingProduct = FALSE]
              /\ tasks' = [tasks EXCEPT ![c].loadData = @ \ {route}]
              /\ UNCHANGED inbox
    /\ UNCHANGED <<ledger, now, catalog, storage, draws, probe>>

\* the loader's timer fires (Index.tsx 189-213)
LoaderDone(c) ==
    LET toOffer == ui[c].sku # NoSku /\ ui[c].selectedProduct # NoProduct
        toProducts == ui[c].sku = NoSku /\ ui[c].allProducts
    IN /\ ui[c].currentScreen = "loader"
       /\ ~ui[c].isLoadingProduct
       /\ toOffer \/ toProducts
       /\ ui' = [ui EXCEPT ![c].currentScreen =
                     IF toOffer THEN "offer" ELSE "products"]
       /\ UNCHANGED <<ledger, now, catalog, storage, tasks, inbox, draws, probe>>

\* handleSendOffer up to the await: what the call keeps of the render it was
\* made in, the decision, and the row createOfferLog is asked to insert
OfferCall(c, offerPrice, row, draw) ==
    LET product == ui[c].selectedProduct
        isAccepted == Decide(product, offerPrice)
    IN [ product |-> product, offerPrice |-> offerPrice,
         isAccepted |-> isAccepted,
         attemptsRemaining |-> ui[c].attemptsRemaining,
         newAttempts |-> NewAttempts(isAccepted, ui[c].attemptsRemaining),
         coupons |-> ui[c].coupons,
         row |-> row,       \* the row createOfferLog returned, 0 when it threw
         draw |-> draw ]    \* the Date.now() of the catch branch's coupon

OfferData(call) ==
    [ product_sku |-> call.product.sku,
      product_price |-> call.product.price,
      product_max_discount_percentage |-> call.product.maxDiscountPercentage,
      offered_amount |-> call.offerPrice,
      offer_status |-> OfferStatus(call.isAccepted),
      attempts_remaining |-> Some(call.newAttempts) ]

\* the "Ofertar" button is shown and can start another call
CanSendOffer(c) ==
    /\ Rendered(ui[c]) = "offer"
    /\ ui[c].selectedProduct # NoProduct
    /\ ~HasExistingOffer(ui[c], now)
    /\ Len(tasks[c].sendOffer) < MaxPendingOffers

\* "Ofertar": handleSendOffer runs to the await and createOfferLog inserts
\* the row; the devices subscribed to the session's rows are notified
SendOffer(c) ==
    /\ CanSendOffer(c)
    /\ Len(ledger) < MaxRows
    /\ InboxRoom
    /\ \E offerPrice \in Offers :
         LET call == OfferCall(c, offerPrice, Len(ledger) + 1, 0)
         IN /\ ledger' = CreateOfferLog(ledger, SessionOf(c), OfferData(call), now)
            /\ tasks' = [tasks EXCEPT ![c].sendOffer = Append(@, call)]
    /\ inbox' = NotifySession(SessionOf(c), OfferEvent(Len(ledger) + 1))
    /\ UNCHANGED <<now, catalog, ui, storage, draws, probe>>

\* "Ofertar" while the table cannot be reached: createOfferLog throws
SendOfferFails(c) ==
    /\ CanSendOffer(c)
    /\ \E offerPrice \in Offers :
         LET drawn == IF Decide(ui[c].selectedProduct, offerPrice) THEN 1 ELSE 0
         IN /\ draws + drawn <= MaxDraws
            /\ tasks' = [tasks EXCEPT ![c].sendOffer =
                            Append(@, OfferCall(c, offerPrice, 0, draws + drawn))]
            /\ draws' = draws + drawn
    /\ UNCHANGED <<ledger, now, catalog, ui, storage, inbox, probe>>

\* handleSendOffer after the await: the try branch when the row was created,
\* the catch branch otherwise
OfferSaved(c) ==
    /\ tasks[c].sendOffer # <<>>
    /\ LET call == Head(tasks[c].sendOffer)
       IN \E len \in LocalCodeLens :
            LET newCoupon ==
                  IF call.row # 0
                  THEN VisitCoupon(ledger[call.row], call.product, now)
                  ELSE LocalCoupon(call.product, call.offerPrice, OfferLifetime,
                                   len, call.draw, now)
            IN /\ (call.row # 0 \/ ~call.isAccepted) => len = 8
               /\ IF call.isAccepted
                  THEN /\ ui' = [ui EXCEPT
                              ![c].coupons = Append(call.coupons, newCoupon),
                              ![c].lastOfferResult = "accepted",
                              ![c].currentScreen = "result"]
                       /\ storage' = [storage EXCEPT ![c] =
                              SavedCoupons(Append(call.coupons, newCoupon))]
                  ELSE /\ ui' = [ui EXCEPT
                              ![c].attemptsRemaining = call.newAttempts,
                              ![c].lastOfferResult = "rejected",
                              ![c].currentScreen = "result"]
                       /\ UNCHANGED storage
    /\ tasks' = [tasks EXCEPT ![c].sendOffer = Tail(@)]
    /\ UNCHANGED <<ledger, now, catalog, inbox, draws, probe>>

\* a realtime notification reaches its callback: the session channel's
\* (Index.tsx 263-271) or the products channel's (220-234)
DeliverEvent(c) ==
    /\ inbox[c] # <<>>
    /\ LET event == Head(inbox[c])
       IN IF event.kind = "offer"
          THEN /\ ui' = [ui EXCEPT ![c].attemptsRemaining =
                           IF ledger[event.row].product_sku = ui[c].selectedProduct.sku
                           THEN ledger[event.row].attempts_remaining ELSE @]
               /\ inbox' = [inbox EXCEPT ![c] = Tail(@)]
               /\ UNCHANGED tasks
          ELSE IF event.product.sku = ui[c].selectedProduct.sku
               THEN /\ ui' = [ui EXCEPT ![c] = SelectProduct(@, event.product)]
                    /\ tasks' = [tasks EXCEPT ![c].loadAttempts =
                                    AttemptLoads(ui[c], event.product, @)]
                    /\ inbox' = [inbox EXCEPT ![c] = <<>>]
               ELSE /\ inbox' = [inbox EXCEPT ![c] = Tail(@)]
                    /\ UNCHANGED <<ui, tasks>>
    /\ UNCHANGED <<ledger, now, catalog, storage, draws, probe>>

\* loadAttempts resumes after getRemainingAttempts
LoadAttemptsDone(c) ==
    /\ \E sku \in tasks[c].loadAttempts :
         /\ ui' = [ui EXCEPT ![c].attemptsRemaining =
                       GetRemainingAttempts(ledger, SessionOf(c), sku)]
         /\ tasks' = [tasks EXCEPT ![c].loadAttempts = @ \ {sku}]
    /\ UNCHANGED <<ledger, now, catalog, storage, inbox, draws, probe>>

\* a merge that would keep every stored coupon
MergedCoupons_KeepAll(led, sessionId, stored, t) ==
    LET accepted == SelectSeq(GetAcceptedOffers(led, sessionId),
                              LAMBDA offer : ~IsOfferExpired(offer, t))
        transformed == [i \in 1..Len(accepted) |->
                            TransformOfferLogToCoupon(accepted[i], t)]
    IN transformed \o stored

\* the coupons loadAcceptedOffers sets (Index.tsx 282-303): the session's
\* unexpired accepted rows, then the stored coupons whose id is not among them
MergedCoupons(led, sessionId, stored, t) ==
    LET accepted == SelectSeq(GetAcceptedOffers(led, sessionId),
                              LAMBDA offer : ~IsOfferExpired(offer, t))
        transformed == [i \in 1..Len(accepted) |->
                            TransformOfferLogToCoupon(accepted[i], t)]
        fromLedger(id) == \E i \in 1..Len(transformed) : transformed[i].id = id
    IN transformed \o SelectSeq(stored, LAMBDA coupon : ~fromLedger(coupon.id))

\* loadAcceptedOffers resumes after getAcceptedOffers
LoadCouponsDone(c) ==
    /\ tasks[c].loadCoupons
    /\ ui' = [ui EXCEPT ![c].coupons =
                  MergedCoupons(ledger, SessionOf(c), storage[c], now)]
    /\ tasks' = [tasks EXCEPT ![c].loadCoupons = FALSE]
    /\ UNCHANGED <<ledger, now, catalog, storage, inbox, draws, probe>>

\* "Hacer nueva oferta" of the rejected result screen (attempts 2 or 1)
MakeNewOffer(c) ==
    /\ Rendered(ui[c]) = "result"
    /\ ui[c].lastOfferResult # "accepted"
    /\ ui[c].attemptsRemaining \in {1, 2}
    /\ ui' = [ui EXCEPT ![c].currentScreen = "offer"]
    /\ UNCHANGED <<ledger, now, catalog, storage, tasks, inbox, draws, probe>>

SpecialDiscountLifetime == 30

\* Math.round(selectedProduct.price * 0.85)
SpecialDiscountPrice(product) == (product.price * 85 + 50) \div 100

\* handleAcceptSpecialDiscount, the button of the result screen shown when
\* attemptsRemaining === 0
HandleAcceptSpecialDiscount(c) ==
    /\ Rendered(ui[c]) = "result"
    /\ ui[c].lastOfferResult # "accepted"
    /\ ui[c].attemptsRemaining = 0
    /\ ui[c].selectedProduct # NoProduct
    /\ draws < MaxDraws
    /\ \E len \in LocalCodeLens :
         LET coupon == LocalCoupon(ui[c].selectedProduct,
                                   SpecialDiscountPrice(ui[c].selectedProduct),
                                   SpecialDiscountLifetime, len, draws + 1, now)
         IN /\ ui' = [ui EXCEPT ![c].coupons = Append(@, coupon),
                                ![c].lastOfferResult = "accepted",
                                ![c].currentScreen = "result"]
            /\ storage' = [storage EXCEPT ![c] =
                              SavedCoupons(Append(ui[c].coupons, coupon))]
    /\ draws' = draws + 1
    /\ UNCHANGED <<ledger, now, catalog, tasks, inbox, probe>>

\* the admin changes a product's row to its next version; the devices
\* subscribed to the products channel are notified
ProductUpdate ==
    /\ InboxRoom
    /\ \E sku \in NavSkus, i \in 1..(Len(ProductVersions) - 1) :
         /\ catalog[sku] = ProductVersions[i]
         /\ catalog' = [catalog EXCEPT ![sku] = ProductVersions[i + 1]]
         /\ inbox' = Notify(ProductEvent(GetProductBySku(catalog', sku)))
    /\ UNCHANGED <<ledger, now, ui, storage, tasks, draws, probe>>

\* time passes
Tick ==
    /\ now < MaxTime
    /\ now' = now + TickStep
    /\ UNCHANGED <<ledger, catalog, ui, storage, tasks, inbox, draws, probe>>

\* one device of the session in use, opened at home or at a product's page
InitDevice ==
    /\ ledger = <<>>
    /\ now = 0
    /\ catalog = InitialCatalog
    /\ \E sku \in {NoSku} \cup NavSkus :
         /\ ui = [c \in Clients |-> IF c = "d1" THEN Mounted(sku) ELSE InitialUi(NoSku)]
         /\ tasks = [c \in Clients |-> IF c = "d1" THEN MountTasks(sku) ELSE NoTasks]
    /\ storage = [c \in Clients |-> <<>>]
    /\ inbox = [c \in Clients |-> <<>>]
    /\ draws = 0
    /\ probe = NoProbe

\* what the device does while the table can be reached
DeviceStep(c) ==
    \/ Reload(c)
    \/ GoToHomeProducts(c)
    \/ LoadDataDone(c)
    \/ LoaderDone(c)
    \/ LoadCouponsDone(c)
    \/ LoadAttemptsDone(c)
    \/ SendOffer(c)
    \/ OfferSaved(c)
    \/ DeliverEvent(c)
    \/ MakeNewOffer(c)
    \/ HandleAcceptSpecialDiscount(c)

Next == DeviceStep("d1") \/ ProductUpdate \/ Tick

\* one device, the admin's product updates, the clock
Spec == InitDevice /\ [][Next]_vars

\* one device whose requests to the table can fail
NextOffline == DeviceStep("d1") \/ SendOfferFails("d1")

SpecOffline == InitDevice /\ [][NextOffline]_vars

\* two devices of one session, each opened at the product's page
InitSession ==
    /\ ledger = <<>>
    /\ now = 0
    /\ catalog = InitialCatalog
    /\ ui = [c \in Clients |-> Mounted("A")]
    /\ tasks = [c \in Clients |-> MountTasks("A")]
    /\ storage = [c \in Clients |-> <<>>]
    /\ inbox = [c \in Clients |-> <<>>]
    /\ draws = 0
    /\ probe = NoProbe

\* the negotiation itself: load, offer, result, notification
OfferFlowStep(c) ==
    \/ LoadDataDone(c)
    \/ LoaderDone(c)
    \/ LoadCouponsDone(c)
    \/ SendOffer(c)
    \/ OfferSaved(c)
    \/ DeliverEvent(c)
    \/ MakeNewOffer(c)
    \/ HandleAcceptSpecialDiscount(c)

NextSession == \E c \in Clients : OfferFlowStep(c)

SpecSession == InitSession /\ [][NextSession]_vars

(***************************************************************************)
(* Properties of the attempt budget.                                       *)
(***************************************************************************)
\* the handleSendOffer calls of a device still awaiting their continuation
PendingCalls(c) == {tasks[c].sendOffer[k] : k \in 1..Len(tasks[c].sendOffer)}

\* C2: for a rejected offer the attempts-remaining value computed, shown and
\* written to the ledger row is max(0, attemptsRemainingBefore - 1); it is
\* never negative, on the client and on every ledger row.
C2_RejectedAttemptsClamped ==
    /\ \A c \in Clients : ui[c].attemptsRemaining >= 0
    /\ \A r \in Rows(ledger) : r.attempts_remaining >= 0
    /\ \A c \in Clients : \A call \in PendingCalls(c) :
          ~call.isAccepted =>
              call.newAttempts = Max(0, call.attemptsRemaining - 1)

\* C3: an accepted offer does not consume an attempt: the row createOfferLog
\* inserts for it records the attempts remaining the device had when the
\* offer was sent, and handleSendOffer's continuation for an accepted offer
\* leaves the device's attempts remaining as they were.
C3_AcceptanceKeepsAttempts ==
    [][\A c \in Clients :
          /\ SendOffer(c) =>
                LET call == tasks'[c].sendOffer[Len(tasks'[c].sendOffer)]
                IN call.isAccepted =>
                      /\ ledger'[call.row].offer_status = "accepted"
                      /\ ledger'[call.row].attempts_remaining = ui[c].attemptsRemaining
          /\ (OfferSaved(c) /\ Head(tasks[c].sendOffer).isAccepted) =>
                /\ ui'[c].attemptsRemaining = ui[c].attemptsRemaining
                /\ ui'[c].lastOfferResult = "accepted"
      ]_vars

\* C3 witness: an offer accepted on the second attempt left: the result screen
\* of the acceptance shows 1 attempt, and the accepted row records 1
C3_Witness ==
    \E c \in Clients :
        /\ ui[c].currentScreen = "result"
        /\ ui[c].lastOfferResult = "accepted"
        /\ ui[c].attemptsRemaining = 1
        /\ tasks[c].sendOffer = <<>>
        /\ \E r \in Rows(ledger) :
              /\ r.offer_status = "accepted" /\ r.attempts_remaining = 1
              /\ \E i \in 1..Len(ui[c].coupons) :
                    ui[c].coupons[i].id = [src |-> "ledger", n |-> r.id]

\* C5: from a pair with no attempts, after k consecutive rejected submissions
\* that were appended (k = 1, 2, 3) the remaining attempts of the pair are
\* 3 - k.
C5_RemainingAfterRejections ==
    \A sku \in Skus :
        LET rows == PairRows(ledger, "s1", sku)
        IN (Cardinality(rows) \in 1..3
              /\ \A r \in rows : r.offer_status = "rejected")
           => GetRemainingAttempts(ledger, "s1", sku) = 3 - Cardinality(rows)

\* C6: the budget of a pair is 3 only when the pair has no attempt or its
\* most recent attempt is accepted, and once a rejection has brought it to 0
\* it stays 0 until an accepted attempt is appended for the pair.
C6_BudgetNotRaised ==
    \A sku \in Skus :
        LET rows == PairRows(ledger, "s1", sku)
            budget == GetRemainingAttempts(ledger, "s1", sku)
        IN /\ budget = 3 =>
                \/ rows = {}
                \/ \E r \in rows : IsMostRecent(r, rows) /\ r.offer_status = "accepted"
           /\ \A r \in rows :
                (/\ r.offer_status = "rejected"
                 /\ r.attempts_remaining <= 0
                 /\ ~\E q \in rows : q.offer_status = "accepted" /\ Newer(q, r))
                => budget = 0

\* C7: a rejection that brings the attempts remaining to 0 ends the cycle:
\* no further offer of the session for the product is sent while the device
\* shows no attempt left.
C7_NoOfferAtZero ==
    \A c \in Clients : \A call \in PendingCalls(c) : call.attemptsRemaining > 0

\* C8: for each (session, sku) pair at most one row is accepted with its
\* expiresAt still in the future.
C8_OneUnexpiredAccepted ==
    \A sku \in Skus :
        Cardinality({r \in PairRows(ledger, "s1", sku) :
                        /\ r.offer_status = "accepted"
                        /\ r.expires_at # Null
                        /\ r.expires_at[1] > now}) <= 1

\* C9: on the offer screen, once the coupons of the mount have been loaded
\* and no offer is in flight, an unexpired accepted attempt of the session
\* for the selected product makes the screen show the existing offer instead
\* of the "Ofertar" button.
C9_ExistingOfferBlocks ==
    \A c \in Clients :
        (/\ Rendered(ui[c]) = "offer"
         /\ ~tasks[c].loadCoupons
         /\ tasks[c].sendOffer = <<>>
         /\ \E r \in PairRows(ledger, SessionOf(c), ui[c].selectedProduct.sku) :
               /\ r.offer_status = "accepted"
               /\ r.expires_at # Null
               /\ r.expires_at[1] > now)
        => HasExistingOffer(ui[c], now)

(***************************************************************************)
(* The coupon status the admin table (Admin.tsx) and the shopper's coupons *)
(* screen (Index.tsx) derive for an accepted attempt.                      *)
(***************************************************************************)
RedemptionWindow == 30

\* Admin.tsx getCouponStatus
AdminCouponStatus(log, t) ==
    IF log.offer_status # "accepted" THEN "N/A"
    ELSE IF log.is_redeemed THEN "usado"
    ELSE IF t > log.created_at + RedemptionWindow THEN "cancelado"
    ELSE "pendiente"

\* Index.tsx getCouponStatus: coupon.createdAt.getTime() is evaluated first,
\* and throws unless createdAt is a Date
ShopperCouponStatus(coupon, currentTime) ==
    IF coupon.createdAt.kind # "Date" THEN "TypeError"
    ELSE IF coupon.status = "usado" THEN "usado"
    ELSE IF currentTime > coupon.createdAt.t + RedemptionWindow THEN "cancelado"
    ELSE "pendiente"

\* an update that would stamp created_at instead of updated_at
UpdateOfferLog_StampsCreation(led, id, updateData, t) ==
    IF id \notin 1..Len(led) THEN led
    ELSE [led EXCEPT ![id] =
            [f \in DOMAIN led[id] |->
                IF f = "created_at" THEN t
                ELSE IF f \in DOMAIN updateData THEN updateData[f]
                ELSE led[id][f]]]

\* updateOfferLog: UPDATE offer_logs SET <updateData> WHERE id = <id>; the
\* trigger handle_updated_at stamps updated_at on every UPDATE.  No row
\* matches an unknown id: .single() then fails and nothing is written.
UpdateOfferLog(led, id, updateData, t) ==
    IF id \notin 1..Len(led) THEN led
    ELSE [led EXCEPT ![id] =
            [f \in DOMAIN led[id] |->
                IF f = "updated_at" THEN t
                ELSE IF f \in DOMAIN updateData THEN updateData[f]
                ELSE led[id][f]]]

\* a redemption that would flip the flag instead of setting it
MarkOfferAsRedeemed_Toggle(led, id, t) ==
    UpdateOfferLog(led, id, [is_redeemed |-> ~led[id].is_redeemed], t)

\* markOfferAsRedeemed: updateOfferLog(id, { is_redeemed: true })
MarkOfferAsRedeemed(led, id, t) == UpdateOfferLog(led, id, [is_redeemed |-> TRUE], t)

MaxCouponTime == 33     \* the clock of the coupon harness stops here
MaxAcceptedAt == 2      \* the latest minute the attempt is accepted at

InitCoupon == AtRest /\ probe = NoProbe

\* the device's offer is accepted: the row, and the coupon of this visit
AcceptOffer ==
    /\ ledger = <<>>
    /\ now <= MaxAcceptedAt
    /\ LET product == GetProductBySku(catalog, "A")
           call == [product |-> product, offerPrice |-> 55000, isAccepted |-> TRUE,
                    newAttempts |-> NewAttempts(TRUE, ui["d1"].attemptsRemaining)]
       IN /\ ledger' = CreateOfferLog(ledger, SessionOf("d1"), OfferData(call), now)
          /\ ui' = [ui EXCEPT !["d1"].coupons =
                       <<VisitCoupon(ledger'[1], product, now)>>]
          /\ storage' = [storage EXCEPT !["d1"] =
                       SavedCoupons(<<VisitCoupon(ledger'[1], product, now)>>)]
    /\ probe' = NoProbe
    /\ UNCHANGED <<now, catalog, tasks, inbox, draws>>

\* the admin marks the coupon used
RedeemOffer ==
    /\ ledger # <<>>
    /\ ~ledger[1].is_redeemed
    /\ ledger' = MarkOfferAsRedeemed(ledger, 1, now)
    /\ probe' = NoProbe
    /\ UNCHANGED <<now, catalog, ui, storage, tasks, inbox, draws>>

\* the device reloads its coupons from the ledger (mount, or an UPDATE)
ReloadCoupons ==
    /\ ledger # <<>>
    /\ ui' = [ui EXCEPT !["d1"].coupons =
                 MergedCoupons(ledger, SessionOf("d1"), storage["d1"], now)]
    /\ probe' = NoProbe
    /\ UNCHANGED <<ledger, now, catalog, storage, tasks, inbox, draws>>

CouponTick ==
    /\ now < MaxCouponTime
    /\ now' = now + 1
    /\ probe' = NoProbe
    /\ UNCHANGED <<ledger, catalog, ui, storage, tasks, inbox, draws>>

\* the admin table and the coupons screen render the attempt's status
ReadCouponStatus ==
    /\ ledger # <<>>
    /\ ui["d1"].coupons # <<>>
    /\ probe' = [fn |-> "getCouponStatus",
                 admin |-> AdminCouponStatus(ledger[1], now),
                 shopper |-> ShopperCouponStatus(ui["d1"].coupons[1], now)]
    /\ UNCHANGED <<ledger, now, catalog, ui, storage, tasks, inbox, draws>>

NextCoupon ==
    AcceptOffer \/ RedeemOffer \/ ReloadCoupons \/ CouponTick \/ ReadCouponStatus

SpecCoupon == InitCoupon /\ [][NextCoupon]_vars

\* C10: the coupon status derived for an accepted attempt at read time now is
\* used if isRedeemed; otherwise cancelled if now is strictly more than 30
\* minutes after createdAt; otherwise pending.
C10_CouponStatus ==
    probe.fn = "getCouponStatus" =>
        LET expected == IF ledger[1].is_redeemed THEN "usado"
                        ELSE IF now - ledger[1].created_at > 30 THEN "cancelado"
                        ELSE "pendiente"
        IN /\ probe.admin = expected
           /\ probe.shopper = expected

(***************************************************************************)
(* Harness of the redemption: the accepted attempt of the coupon harness,  *)
(* attempts of another session appended after it, markOfferAsRedeemed      *)
(* called from outside the application at any time and any number of       *)
(* times, the UPDATE notification and the reload it starts on the device,  *)
(* and the status both views derive.                                       *)
(***************************************************************************)
MaxRedeemRows == 2                  \* rows of the redemption harness
MaxRedeemCalls == 2                 \* markOfferAsRedeemed calls not yet notified

\* the instants the clock of the redemption harness stops at: past the 30
\* minutes of the redemption window, past the hour of expiry, past two hours
RedeemInstants == {31, 61, 121}

\* the postgres_changes payload of an UPDATE
UpdateEvent(row) == [kind |-> "UPDATE", row |-> row, product |-> NoProduct]

\* the id of the coupon transformOfferLogToCoupon makes of a row
CouponId(rowId) == [src |-> "ledger", n |-> rowId]

\* activeCoupons of the coupons screen
ActiveCoupons(coupons, t) == SelectSeq(coupons, LAMBDA coupon : t < coupon.expiresAt)

\* what the coupons screen shows for the attempt: nothing when no active
\* coupon has its id, else the badge getCouponStatus gives
ShopperRead(u, rowId, t) ==
    LET shown == SelectSeq(ActiveCoupons(u.coupons, t),
                           LAMBDA coupon : coupon.id = CouponId(rowId))
    IN IF shown = <<>> THEN "absent" ELSE ShopperCouponStatus(shown[1], t)

NoRead == [admin |-> "none", shopper |-> "none"]

\* another session's attempt is appended
OtherAttempt ==
    /\ Len(ledger) \in 1..(MaxRedeemRows - 1)
    /\ \E status \in {"accepted", "rejected"} :
         ledger' = CreateOfferLog(ledger, "s2",
                      [ product_sku |-> "A",
                        product_price |-> catalog["A"].price,
                        product_max_discount_percentage |->
                            catalog["A"].maxDiscountPercentage,
                        offered_amount |-> IF status = "accepted" THEN 55000 ELSE 40000,
                        offer_status |-> status,
                        attempts_remaining |-> Some(IF status = "accepted" THEN 3 ELSE 2) ],
                      now)
    /\ UNCHANGED <<now, catalog, ui, storage, tasks, inbox, draws, probe>>

\* markOfferAsRedeemed(id), called by an administrative tool; the UPDATE is
\* published on the channel of subscribeToAllOfferLogs, which has no filter
MarkRedeemed ==
    /\ Len(inbox["d1"]) < MaxRedeemCalls
    /\ \E id \in 1..Len(ledger) :
         /\ ledger' = MarkOfferAsRedeemed(ledger, id, now)
         /\ inbox' = [inbox EXCEPT !["d1"] = Append(@, UpdateEvent(id))]
    /\ UNCHANGED <<now, catalog, ui, storage, tasks, draws, probe>>

\* the callback of subscribeToAllOfferLogs (Index.tsx 312-317): an UPDATE
\* starts loadAcceptedOffers
DeliverUpdate(c) ==
    /\ inbox[c] # <<>>
    /\ Head(inbox[c]).kind = "UPDATE"
    /\ inbox' = [inbox EXCEPT ![c] = Tail(@)]
    /\ tasks' = [tasks EXCEPT ![c].loadCoupons = TRUE]
    /\ UNCHANGED <<ledger, now, catalog, ui, storage, draws, probe>>

\* time passes, up to one of the instants
RedeemWait ==
    /\ \E t \in RedeemInstants : t > now /\ now' = t
    /\ UNCHANGED <<ledger, catalog, ui, storage, tasks, inbox, draws, probe>>

\* the admin table and the coupons screen render the first attempt's status;
\* the probe keeps what the row was at the read (redeemed, expired), whether
\* every notification was delivered and every reload done, and the read
\* before this one
ReadRedeemStatus ==
    /\ ledger # <<>>
    /\ probe' = [fn |-> "getCouponStatus",
                 redeemed |-> ledger[1].is_redeemed,
                 expired |-> IsOfferExpired(ledger[1], now),
                 late |-> now >= ledger[1].created_at + 120,
                 settled |-> inbox["d1"] = <<>> /\ ~tasks["d1"].loadCoupons,
                 admin |-> AdminCouponStatus(ledger[1], now),
                 shopper |-> ShopperRead(ui["d1"], 1, now),
                 prev |-> IF probe.fn = "getCouponStatus"
                          THEN [admin |-> probe.admin, shopper |-> probe.shopper]
                          ELSE NoRead]
    /\ UNCHANGED <<ledger, now, catalog, ui, storage, tasks, inbox, draws>>

NextRedeem ==
    \/ AcceptOffer
    \/ OtherAttempt
    \/ MarkRedeemed
    \/ DeliverUpdate("d1")
    \/ LoadCouponsDone("d1")
    \/ RedeemWait
    \/ ReadRedeemStatus

SpecRedeem == InitCoupon /\ [][NextRedeem]_vars

\* C11: once markRedeemed has been called for an accepted attempt, every
\* later read of its status, by the admin view or by the shopper's coupon
\* list, returns used, however much time has passed since its creation.
C11_UsedOnceRedeemed ==
    (probe.fn = "getCouponStatus" /\ probe.redeemed) =>
        /\ probe.admin = "usado"
        /\ probe.shopper = "usado"

\* C12: used and cancelled are terminal.  Whatever markRedeemed calls are
\* made and however much time passes, a coupon read as used is never later
\* read as pending or cancelled, and a coupon read as cancelled is never
\* later read as pending or used.
C12_UsedAndCancelledTerminal ==
    probe.fn = "getCouponStatus" =>
        /\ probe.prev.admin = "usado" => probe.admin \notin {"pendiente", "cancelado"}
        /\ probe.prev.admin = "cancelado" => probe.admin \notin {"pendiente", "usado"}
        /\ probe.prev.shopper = "usado" => probe.shopper \notin {"pendiente", "cancelado"}
        /\ probe.prev.shopper = "cancelado" => probe.shopper \notin {"pendiente", "usado"}

(***************************************************************************)
(* One visit of one device whose requests to the table can fail: the       *)
(* negotiation, and leaving it for the home page while a request is        *)
(* pending.                                                                *)
(***************************************************************************)
NextFailure ==
    \/ OfferFlowStep("d1")
    \/ SendOfferFails("d1")
    \/ GoToHomeProducts("d1")

SpecFailure == InitDevice /\ [][NextFailure]_vars

C14_CodeAndExpiryIffAccepted ==
    \A r \in Rows(ledger) :
        IF r.offer_status = "accepted"
        THEN r.acceptance_code # Null /\ r.expires_at # Null
        ELSE r.acceptance_code = Null /\ r.expires_at = Null

\* a ledger with an accepted, a rejected and a pending row
C14_Witness ==
    \A status \in ProbeStatuses : \E r \in Rows(ledger) : r.offer_status = status

\* C15: the consolation coupon issued after three rejections has a coupon
\* type distinct from that of a normal accepted coupon ('accepted').
C15_ConsolationTypeDistinct ==
    [][\A c \in Clients :
          HandleAcceptSpecialDiscount(c) =>
              ui'[c].coupons[Len(ui'[c].coupons)].type # "accepted"]_vars

C17_MarkRedeemedIdempotent ==
    [][\A id \in 1..Len(ledger) :
          (/\ ledger[id].is_redeemed
           /\ inbox'["d1"] = Append(inbox["d1"], UpdateEvent(id))) =>
             /\ ledger'[id].is_redeemed
             /\ \A i \in 1..Len(ledger) :
                   \A f \in DOMAIN ledger[i] \ {"updated_at"} :
                       ledger'[i][f] = ledger[i][f]]_vars

\* two calls for the first row, the later one some time after the row's
\* creation, whose notifications are both still to be delivered
C17_Witness ==
    /\ inbox["d1"] = <<UpdateEvent(1), UpdateEvent(1)>>
    /\ ledger[1].is_redeemed
    /\ ledger[1].updated_at > ledger[1].created_at

(***************************************************************************)
(* One device, and a shopper of another session negotiating for the same   *)
(* product from another browser.                                           *)
(***************************************************************************)
OtherSession == "s2"

\* handleSendOffer on the other browser: the row it inserts and the
\* notification of the insert
OtherSessionOffer ==
    /\ Len(ledger) < MaxRows
    /\ InboxRoom
    /\ GetRemainingAttempts(ledger, OtherSession, "A") > 0
    /\ \E offerPrice \in Offers :
         LET product == GetProductBySku(catalog, "A")
             isAccepted == Decide(product, offerPrice)
             remaining == GetRemainingAttempts(ledger, OtherSession, "A")
         IN ledger' = CreateOfferLog(ledger, OtherSession,
                         [ product_sku |-> product.sku,
                           product_price |-> product.price,
                           product_max_discount_percentage |->
                               product.maxDiscountPercentage,
                           offered_amount |-> offerPrice,
                           offer_status |-> OfferStatus(isAccepted),
                           attempts_remaining |->
                               Some(NewAttempts(isAccepted, remaining)) ], now)
    /\ inbox' = NotifySession(OtherSession, OfferEvent(Len(ledger) + 1))
    /\ UNCHANGED <<now, catalog, ui, storage, tasks, draws, probe>>

NextVisitors == OfferFlowStep("d1") \/ OtherSessionOffer

SpecVisitors == InitDevice /\ [][NextVisitors]_vars

\* C18: the callback of a session-scoped subscription is only invoked with
\* changes of rows whose session_id is the subscriber's; rows of other
\* sessions never reach it, and so never change the device's attempts
\* remaining: a device none of whose own offers was rejected shows 3.
C18_SessionScopedSubscription ==
    \A c \in Clients :
        /\ \A k \in 1..Len(inbox[c]) :
              inbox[c][k].kind = "offer" =>
                  ledger[inbox[c][k].row].session_id = SessionOf(c)
        /\ (/\ \A r \in Rows(ledger) :
                  r.session_id = SessionOf(c) => r.offer_status # "rejected"
            /\ \A call \in PendingCalls(c) : call.isAccepted) =>
              ui[c].attemptsRemaining = 3

\* the device's own accepted offer is still to be notified to it; the offer
\* the other session then had rejected for the same product is not in its
\* inbox, and the device shows its 3 attempts
C18_Witness ==
    /\ ui["d1"].selectedProduct.sku = "A"
    /\ ui["d1"].attemptsRemaining = 3
    /\ Len(ledger) = 2
    /\ ledger[1].session_id = SessionOf("d1")
    /\ ledger[2].session_id = OtherSession
    /\ ledger[2].offer_status = "rejected"
    /\ ledger[2].product_sku = "A"
    /\ inbox["d1"] = <<OfferEvent(1)>>

(***************************************************************************)
(* One visit of one device at the product's page while the admin edits the *)
(* product.                                                                *)
(***************************************************************************)
NextPricing == OfferFlowStep("d1") \/ ProductUpdate

SpecPricing == InitDevice /\ [][NextPricing]_vars

\* C19: when the product's price or maximum discount is changed while a
\* negotiation is in flight, every later decision of the negotiation still
\* uses the price and maximum discount of its first decision, those captured
\* when the negotiation started.
C19_DecisionsUseCapturedProduct ==
    \A r \in Rows(ledger) :
        LET captured == [sku |-> ledger[1].product_sku,
                         price |-> ledger[1].product_price,
                         maxDiscountPercentage |->
                             ledger[1].product_max_discount_percentage]
        IN /\ r.product_price = captured.price
           /\ r.product_max_discount_percentage = captured.maxDiscountPercentage
           /\ r.offer_status = OfferStatus(Decide(captured, r.offered_amount))

\* C20: after markRedeemed was called from outside for an accepted,
\* unexpired attempt of the shopper's session, once the UPDATE notification
\* has been delivered on the global channel and the reload it starts has
\* completed, the shopper's coupon list reports the coupon as used.
C20_ReloadShowsUsed ==
    (/\ probe.fn = "getCouponStatus"
     /\ probe.redeemed
     /\ ~probe.expired
     /\ probe.settled) =>
        probe.shopper = "usado"

\* C21: the list loadAcceptedOffers makes of the ledger's coupons and the
\* stored ones never has two entries with the same id; for an id found in
\* both the ledger's entry is the one kept, and every stored coupon whose id
\* is not among the ledger's is retained.
C21_MergeByIdLedgerWins ==
    [][\A c \in Clients :
          LoadCouponsDone(c) =>
              LET merged == ui'[c].coupons
                  unexpired == {r \in Rows(ledger) :
                                   /\ r.session_id = SessionOf(c)
                                   /\ r.offer_status = "accepted"
                                   /\ ~IsOfferExpired(r, now)}
                  ofLedger == {TransformOfferLogToCoupon(r, now) : r \in unexpired}
                  Entries(list) == {list[i] : i \in 1..Len(list)}
              IN /\ \A i, j \in 1..Len(merged) :
                       merged[i].id = merged[j].id => i = j
                 /\ ofLedger \subseteq Entries(merged)
                 /\ \A coupon \in Entries(storage[c]) :
                       (\A dbCoupon \in ofLedger : dbCoupon.id # coupon.id)
                           => coupon \in Entries(merged)]_vars

\* a completed reload whose list has a ledger coupon that was also stored
\* (the ledger's entry, without createdAt) and a coupon only the storage had
C21_Witness ==
    /\ ~tasks["d1"].loadCoupons
    /\ \E i \in 1..Len(ui["d1"].coupons) :
          /\ ui["d1"].coupons[i].id.src = "ledger"
          /\ ui["d1"].coupons[i].createdAt = NoDate
          /\ \E k \in 1..Len(storage["d1"]) :
                storage["d1"][k].id = ui["d1"].coupons[i].id
    /\ \E j \in 1..Len(ui["d1"].coupons) :
          /\ ui["d1"].coupons[j].id.src = "local"
          /\ ui["d1"].coupons[j].createdAt.kind = "string"

(***************************************************************************)
(* Harness of generateCode: Math.random() is a multiple of 2^-RandomBits   *)
(* in [0, 1), and the code is computed from its base-36 expansion.         *)
(***************************************************************************)
RandomBits == 16

\* the digits after the point of (num / den).toString(36): the expansion of
\* a multiple of 2^-16 ends within 8 digits, and every digit is printed
RECURSIVE FractionDigits36(_, _)
FractionDigits36(num, den) ==
    IF num = 0 THEN <<>>
    ELSE <<(num * 36) \div den>> \o FractionDigits36((num * 36) % den, den)

\* "0." and the digits, or "0" for zero, as a sequence of characters; a
\* digit is kept as its value 0..35
ToString36(num, den) ==
    IF num = 0 THEN <<"0">> ELSE <<"0", ".">> \o FractionDigits36(num, den)

\* String.prototype.substr(start, length), start counted from 0
Substr(str, start, length) ==
    [i \in 1..Max(0, (IF Len(str) - start < length THEN Len(str) - start ELSE length))
        |-> str[start + i]]

\* generateCode for the value Math.random() returned; toUpperCase maps the
\* digits a-z to A-Z and keeps their values
GenerateCodeOf(num, den) == Substr(ToString36(num, den), 2, 8)

InitCode ==
    /\ AtRest
    /\ \E num \in 0..(2^RandomBits - 1) :
          probe = [fn |-> "generateCode", random |-> num, done |-> FALSE,
                   code |-> <<>>, expiresAt |-> 0]

\* the catch branch of handleSendOffer builds its coupon
ApplyGenerateCode ==
    /\ probe.fn = "generateCode" /\ ~probe.done
    /\ LET code == GenerateCodeOf(probe.random, 2^RandomBits)
           coupon == LocalCoupon(GetProductBySku(catalog, "A"), 55000,
                                 OfferLifetime, Len(code), 1, now)
       IN probe' = [probe EXCEPT !.done = TRUE, !.code = code,
                                 !.expiresAt = coupon.expiresAt - coupon.createdAt.t]
    /\ UNCHANGED <<ledger, now, catalog, ui, storage, tasks, inbox, draws>>

SpecCode == InitCode /\ [][ApplyGenerateCode]_vars

\* C22: a coupon of the local fallback has the shape of a ledger coupon: its
\* code is exactly 8 characters of [A-Z0-9], and it expires one hour after
\* its creation.
C22_LocalCouponShape ==
    (probe.fn = "generateCode" /\ probe.done) =>
        /\ Len(probe.code) = GenerateAcceptanceCode(0).len
        /\ \A i \in 1..Len(probe.code) : probe.code[i] \in 0..35
        /\ probe.expiresAt = 60

C25_SharedBudget ==
    LET rows == PairRows(ledger, "s1", "A")
        rejected == {r \in rows : r.offer_status = "rejected"}
    IN /\ rows = rejected =>
             GetRemainingAttempts(ledger, "s1", "A") = Max(0, 3 - Cardinality(rows))
       /\ Cardinality(rejected) <= 3

(***************************************************************************)
(* Harness of the row of a submission: handleSendOffer decides for the     *)
(* product of its render, the admin may edit the product while the request *)
(* of createOfferLog is on its way, and the row is inserted.               *)
(***************************************************************************)
\* createOfferLog inserts what handleSendOffer passed it at the decision
AppendDecided ==
    /\ probe.fn = "decide" /\ probe.done
    /\ ledger = <<>>
    /\ ledger' = CreateOfferLog(ledger, SessionOf("d1"),
                    OfferData([product |-> probe.product,
                               offerPrice |-> probe.offerPrice,
                               isAccepted |-> probe.isAccepted,
                               newAttempts |-> NewAttempts(probe.isAccepted,
                                                           DefaultAttempts)]),
                    now)
    /\ UNCHANGED <<now, catalog, ui, storage, tasks, inbox, draws, probe>>

NextRows == ApplyDecide \/ ProductUpdate \/ AppendDecided

SpecRows == InitDecide /\ [][NextRows]_vars

\* C26: every row a submission creates is consistent with its own snapshot:
\* its status is accepted if and only if
\* offeredAmount >= productPrice * (1 - productMaxDiscountPercentage/100),
\* also when the product is edited between the decision and the append.
C26_RowConsistentWithSnapshot ==
    \A r \in Rows(ledger) :
        r.offer_status = "accepted" <=>
            r.offered_amount * 100 >=
                r.product_price * (100 - r.product_max_discount_percentage)

\* the code the accepted-result screen displays: that of the last coupon of
\* the list, or a fixed text when there is none or its code is empty
DisplayedCode(u) ==
    IF u.coupons = <<>> \/ u.coupons[Len(u.coupons)].code.len = 0
    THEN [len |-> 8, token |-> <<"fixed", 0>>]
    ELSE u.coupons[Len(u.coupons)].code

\* C27: while the accepted-result screen is shown for the attempt that was
\* just accepted (the last row of the ledger), the coupon code displayed is
\* the acceptance code of that attempt, also when a reload of the coupons
\* completes between the acceptance and the display.
C27_ResultShowsAcceptedCode ==
    \A c \in Clients :
        (/\ Rendered(ui[c]) = "result"
         /\ ui[c].lastOfferResult = "accepted"
         /\ ledger # <<>>
         /\ ledger[Len(ledger)].offer_status = "accepted") =>
            DisplayedCode(ui[c]) = ledger[Len(ledger)].acceptance_code[1]

\* C28: no interleaving of a submission with a reload of the coupons loses
\* an unexpired coupon: the continuation of handleSendOffer and the
\* completion of loadAcceptedOffers both leave every unexpired coupon of the
\* list in the list, and every unexpired stored coupon in the storage.
C28_NoCouponLost ==
    [][\A c \in Clients :
          (OfferSaved(c) \/ LoadCouponsDone(c)) =>
              /\ \A i \in 1..Len(ui[c].coupons) :
                    now < ui[c].coupons[i].expiresAt =>
                        \E j \in 1..Len(ui'[c].coupons) :
                            ui'[c].coupons[j].id = ui[c].coupons[i].id
              /\ \A i \in 1..Len(storage[c]) :
                    now < storage[c][i].expiresAt =>
                        \E j \in 1..Len(storage'[c]) :
                            storage'[c][j].id = storage[c][i].id]_vars

\* C29: every coupon the coupons screen lists (activeCoupons), whether
\* created in this visit, loaded from the ledger or restored from the device
\* storage, carries a creation time that is a date, so that getCouponStatus
\* derives pendiente, usado or cancelado for it without error.
C29_ListedCouponsHaveStatus ==
    \A c \in Clients :
        LET listed == ActiveCoupons(ui[c].coupons, now)
        IN \A i \in 1..Len(listed) :
              /\ listed[i].createdAt.kind = "Date"
              /\ ShopperCouponStatus(listed[i], now)
                    \in {"pendiente", "usado", "cancelado"}

(***************************************************************************)
(* Harness of the hasty shopper: nothing disables "Ofertar" while a        *)
(* handleSendOffer awaits createOfferLog, so the slider can be moved and   *)
(* the button pressed again before the first call continues.               *)
(***************************************************************************)
MaxHastyOffers == 2                 \* handleSendOffer calls awaiting at once

\* "Ofertar" pressed again while an earlier call still awaits its row
SendOfferAgain(c) ==
    /\ Rendered(ui[c]) = "offer"
    /\ ui[c].selectedProduct # NoProduct
    /\ ~HasExistingOffer(ui[c], now)
    /\ tasks[c].sendOffer # <<>>
    /\ Len(tasks[c].sendOffer) < MaxHastyOffers
    /\ Len(ledger) < MaxRows
    /\ InboxRoom
    /\ \E offerPrice \in Offers :
         LET call == OfferCall(c, offerPrice, Len(ledger) + 1, 0)
         IN /\ ledger' = CreateOfferLog(ledger, SessionOf(c), OfferData(call), now)
            /\ tasks' = [tasks EXCEPT ![c].sendOffer = Append(@, call)]
    /\ inbox' = NotifySession(SessionOf(c), OfferEvent(Len(ledger) + 1))
    /\ UNCHANGED <<now, catalog, ui, storage, draws, probe>>

NextHaste == OfferFlowStep("d1") \/ SendOfferAgain("d1")

\* one device, whose shopper may press "Ofertar" twice in a row
SpecHaste == InitDevice /\ [][NextHaste]_vars

\* C30: the coupon of the special discount is created only where the last
\* offer for the selected product was rejected and the device's
\* attemptsRemaining is 0: never while attempts remain and never after an
\* acceptance (the newest row the ledger has for the product is a rejected
\* one and the device holds no unexpired accepted coupon for the product);
\* creating the coupon leaves the ledger as it was.
C30_ConsolationOnlyAtZero ==
    [][\A c \in Clients :
          HandleAcceptSpecialDiscount(c) =>
              LET rows == PairRows(ledger, SessionOf(c), ui[c].selectedProduct.sku)
              IN /\ ui[c].lastOfferResult = "rejected"
                 /\ ui[c].attemptsRemaining = 0
                 /\ rows # {}
                 /\ \A r \in rows :
                       (\A q \in rows : q.id <= r.id) => r.offer_status = "rejected"
                 /\ ~HasExistingOffer(ui[c], now)
                 /\ ledger' = ledger]_vars

=============================================================================
